---- MODULE Spec2Model ----
(***************************************************************************)
(* Model of the signal engine of src/src/App_buckup.tsx: the recursive     *)
(* radix-2 fft (current version, lines 646-693, and the backup version,    *)
(* lines 34-64), the frequency projection calculateDFTForFrequency, the   *)
(* composition of waves, the spectra and the centroid the App derives,     *)
(* and the cycle of renders and effects of the two versions of App.        *)
(*                                                                         *)
(* Numbers.  Samples are Gaussian integers.  Math.cos and Math.sin are     *)
(* modelled by their mathematical values, which are integers exactly when  *)
(* the angle is a whole number of quarter turns; at any other angle the    *)
(* value is some real number the model does not track (tag "inexact").     *)
(* IEEE rounding (Math.cos(-Math.PI/2) is 6.1e-17, not 0) leaves the       *)
(* values as they are; where a value is 0 it is followed as a flag, for    *)
(* Math.atan2, which it can decide.  A number with decimals (a decay of    *)
(* 0.003, a frequency of 33.201) is held as a quotient of integers.        *)
(*                                                                         *)
(* Arrays.  A JavaScript array is a sequence of slots; a slot that was     *)
(* never assigned (new Array(N), an index past the end) is Undefined, and  *)
(* reading a field of it throws a TypeError.                               *)
(***************************************************************************)
EXTENDS Integers, Sequences, FiniteSets

VARIABLES
  data,             \* the signal handed to fft / calculateDFTForFrequency
  other,            \* a second signal of the same length (linearity)
  waves,            \* the list of waves handed to the composition
  targetFrequency,  \* arguments of calculateDFTForFrequency
  numPoints,
  samplingRate,
  called,           \* the function that was called ("none" before the call)
  result,           \* what the call returned or threw
  resultOther,      \* fft(other)
  resultSum,        \* fft(data + other)
  centroid,         \* the centroid the effect computed from the trajectory
  atanDegrees,      \* a result of Math.atan2, in degrees
  phase,            \* the phase-spectrum value derived from it
  amplitudeSpectrumData,  \* the points of the amplitude chart
  phaseSpectrumData,      \* the points of the phase chart
  depth,                  \* how deep the calls of fft on data nested
  params,                 \* App state: the twelve wave parameters
  selectedFrequency,      \* App state: the frequency of the projection
  frequencyRange,         \* App state: the frequencies the spectrum charts show
  dftDataForChart,        \* App state: the trajectory on display
  dftResultsForSelectedFrequency,  \* backup App: the projection of a render
  closure,                \* what the effect callback of the last render captured
  prevDeps,               \* the dependency values of the last render, if any
  dirty,                  \* a state update asks for a render
  effectScheduled,        \* the effect of the last render is yet to run
  changes,                \* how many slider changes were made
  waveId,                 \* backup App: which array compositeWave of the last render is
  sliderMoved             \* a slider was moved since the last render

vars == <<data, other, waves, targetFrequency, numPoints, samplingRate,
          called, result, resultOther, resultSum, centroid, atanDegrees, phase,
          amplitudeSpectrumData, phaseSpectrumData, depth, params,
          selectedFrequency, frequencyRange, dftDataForChart,
          dftResultsForSelectedFrequency, closure, prevDeps, dirty,
          effectScheduled, changes, waveId, sliderMoved>>

phaseVars == <<atanDegrees, phase>>
spectrumVars == <<amplitudeSpectrumData, phaseSpectrumData>>
backupVars == <<waveId, sliderMoved, dftResultsForSelectedFrequency>>
appVars == <<params, selectedFrequency, frequencyRange, dftDataForChart, closure,
            prevDeps, dirty, effectScheduled, changes, backupVars>>
viewVars == <<phaseVars, spectrumVars, appVars>>

(***************************************************************************)
(* Bounds of the model.                                                    *)
(***************************************************************************)
MaxVal == 1    \* samples have |real| + |imag| <= MaxVal
MaxLen == 6    \* fft is called on signals of length 0..MaxLen
MaxFreq == 2   \* targetFrequency ranges over 0..MaxFreq
MaxWaveLen == 2  \* the waves of the frame property have length 0..MaxWaveLen

(***************************************************************************)
(* Complex values and array slots.                                         *)
(***************************************************************************)
Num(re, im) == [tag |-> "num", r |-> re, i |-> im]
Undefined == [tag |-> "undefined", r |-> 0, i |-> 0]
Inexact == [tag |-> "inexact", r |-> 0, i |-> 0]
NaN == [tag |-> "NaN", r |-> 0, i |-> 0]

\* arr[k] of JavaScript, k counted from 0: undefined outside the array.
At(arr, k) == IF k + 1 \in DOMAIN arr THEN arr[k + 1] ELSE Undefined

\* What a call produced: a returned array, or a thrown error.
Returned(v) == [kind |-> "returned", val |-> v]
Threw(e) == [kind |-> e, val |-> <<>>]
NotCalled == [kind |-> "notCalled", val |-> <<>>]

\* The tag of a value computed from operands a and b.
Combine(a, b) ==
  IF a.tag = "NaN" \/ b.tag = "NaN" THEN "NaN"
  ELSE IF a.tag = "inexact" \/ b.tag = "inexact" THEN "inexact"
  ELSE "num"

Tagged(t, re, im) == IF t = "num" THEN Num(re, im) ELSE [tag |-> t, r |-> 0, i |-> 0]

\* Whether rounding may have moved the parts of a value away from the whole
\* numbers the model holds; no part of this one was moved.
NoResidue == [r |-> FALSE, i |-> FALSE]

(***************************************************************************)
(* Quotients.  A division of integers is kept as a fraction in lowest      *)
(* terms with a positive denominator.                                      *)
(***************************************************************************)
RECURSIVE GCD(_, _)
GCD(a, b) == IF b = 0 THEN a ELSE GCD(b, a % b)

Abs(a) == IF a < 0 THEN -a ELSE a

\* n / d for d # 0
Ratio(n, d) ==
  LET g == GCD(Abs(n), Abs(d))
      sign == IF d < 0 THEN -1 ELSE 1
  IN [n |-> sign * (n \div g), d |-> Abs(d) \div g]

\* A complex value whose parts are quotients.
RatioNum(re, im) == [tag |-> "num", r |-> re, i |-> im]
RatioTagged(t) == [tag |-> t, r |-> Ratio(0, 1), i |-> Ratio(0, 1)]

\* useState({ r: 0, i: 0 })
InitialCentroid == RatioNum(Ratio(0, 1), Ratio(0, 1))

(***************************************************************************)
(* Math.cos and Math.sin at the angle 2*pi*p/q.                            *)
(***************************************************************************)
\* The angle in quarter turns, 0..3, when it is a whole number of them.
IsQuarterTurns(p, q) == q # 0 /\ (4 * p) % (IF q > 0 THEN q ELSE -q) = 0

QuarterTurns(p, q) ==
  IF q > 0 THEN ((4 * p) \div q) % 4 ELSE ((4 * (-p)) \div (-q)) % 4

CosQuarter(t) == CASE t = 0 -> 1 [] t = 1 -> 0 [] t = 2 -> -1 [] OTHER -> 0
SinQuarter(t) == CASE t = 0 -> 0 [] t = 1 -> 1 [] t = 2 -> 0 [] OTHER -> -1

\* { r: Math.cos(angle), i: Math.sin(angle) } for angle = 2*pi*p/q; a division
\* by q = 0 makes the angle NaN or infinite, and both values NaN.
CosSin(p, q) ==
  IF q = 0 THEN NaN
  ELSE IF IsQuarterTurns(p, q)
       THEN Num(CosQuarter(QuarterTurns(p, q)), SinQuarter(QuarterTurns(p, q)))
       ELSE Inexact

(***************************************************************************)
(* fft: recursive radix-2 decimation in time.                              *)
(***************************************************************************)
\* Mutant of OddPart: every sample but the first (i !== 0).
OddPartAllButFirst(d) == [j \in 1..(Len(d) - 1) |-> d[j + 1]]

\* data.filter((_, i) => i % 2 === 0) and data.filter((_, i) => i % 2 !== 0)
EvenPart(d) == [j \in 1..((Len(d) + 1) \div 2) |-> d[2 * j - 1]]
OddPart(d) == [j \in 1..(Len(d) \div 2) |-> d[2 * j]]

\* new Array<Complex>(N): N slots, none assigned.
NewArray(N) == [j \in 1..N |-> Undefined]

\* Mutant of Twiddle: the angle without its minus sign (a = 2 * Math.PI).
TwiddlePositiveAngle(k, N) == CosSin(k, N)

\* Mutant of Twiddle: Math.cos used for the imaginary part too.
TwiddleCosTwice(k, N) == Tagged(CosSin(-k, N).tag, CosSin(-k, N).r, CosSin(-k, N).r)

\* exp = { r: Math.cos((a * k) / N), i: Math.sin((a * k) / N) }, a = -2 * Math.PI
Twiddle(k, N) == CosSin(-k, N)

\* Mutant of Temp: the factor odd[k].i dropped from the real part.
TempDroppedFactor(exp, o) ==
  Tagged(Combine(exp, o), exp.r * o.r - exp.i, exp.i * o.r + exp.r * o.i)

\* Mutant of Temp: odd[k].r typed where exp.r was meant in the real part.
TempOddTwice(exp, o) ==
  Tagged(Combine(exp, o), o.r * o.r - exp.i * o.i, exp.i * o.r + exp.r * o.i)

\* temp = exp * odd[k]
Temp(exp, o) ==
  Tagged(Combine(exp, o), exp.r * o.r - exp.i * o.i, exp.i * o.r + exp.r * o.i)

\* results[k] = even[k] + temp
Upper(e, temp) == Tagged(Combine(e, temp), e.r + temp.r, e.i + temp.i)

\* Mutant of Lower: the imaginary part added, as in results[k].
LowerImagAdded(e, temp) == Tagged(Combine(e, temp), e.r - temp.r, e.i + temp.i)

\* results[k + half] = even[k] - temp
Lower(e, temp) == Tagged(Combine(e, temp), e.r - temp.r, e.i - temp.i)

\* k < half, where half is N / 2 (current version) or Math.floor(N / 2) (backup)
LoopRuns(k, N, floorSplit) == IF floorSplit THEN k < N \div 2 ELSE 2 * k < N

\* Mutant of SetUpperHalf: the offset half forgotten (results[k] = v).
SetUpperHalfNoOffset(results, k, N, floorSplit, v) == [results EXCEPT ![k + 1] = v]

\* results[k + half] = v.  With half = N / 2 and N odd the key k + half is not
\* an array index: the assignment adds a property and no element changes.
SetUpperHalf(results, k, N, floorSplit, v) ==
  IF floorSplit \/ N % 2 = 0
  THEN [results EXCEPT ![k + (N \div 2) + 1] = v]
  ELSE results

\* One pass of the loop body for k, after which the loop goes on with k + 1.
Butterfly(results, k, N, floorSplit, e, o) ==
  LET temp == Temp(Twiddle(k, N), o)
      first == [results EXCEPT ![k + 1] = Upper(e, temp)]
  IN SetUpperHalf(first, k, N, floorSplit, Lower(e, temp))

\* for (let k = 0; k < half; k++) { ... } return results;
\* odd[k].r is read first, then even[k].r: either throws when the slot is undefined.
RECURSIVE fftLoop(_, _, _, _, _, _)
fftLoop(k, N, floorSplit, even, odd, results) ==
  IF ~LoopRuns(k, N, floorSplit) THEN Returned(results)
  ELSE IF At(odd, k).tag = "undefined" \/ At(even, k).tag = "undefined"
       THEN Threw("TypeError")
       ELSE fftLoop(k + 1, N, floorSplit, even, odd,
                    Butterfly(results, k, N, floorSplit, At(even, k), At(odd, k)))

\* The body of fft; floorSplit tells the backup version (half = Math.floor(N / 2))
\* from the current one (half = N / 2).  A throw in a recursive call propagates.
RECURSIVE fftBody(_, _)
fftBody(d, floorSplit) ==
  IF Len(d) <= 1 THEN Returned(d)
  ELSE LET even == fftBody(EvenPart(d), floorSplit)
       IN IF even.kind # "returned" THEN even
          ELSE LET odd == fftBody(OddPart(d), floorSplit)
               IN IF odd.kind # "returned" THEN odd
                  ELSE fftLoop(0, Len(d), floorSplit, even.val, odd.val,
                               NewArray(Len(d)))

fft(d) == fftBody(d, FALSE)
fftBackup(d) == fftBody(d, TRUE)

Max(a, b) == IF a >= b THEN a ELSE b

\* How deep the recursive calls made by fft on d nest: 0 when the call makes
\* none (N <= 1), otherwise one more than the deeper of the two calls it
\* makes; the call on the odd part is not made when the first one throws.
RECURSIVE fftDepth(_, _)
fftDepth(d, floorSplit) ==
  IF Len(d) <= 1 THEN 0
  ELSE IF fftBody(EvenPart(d), floorSplit).kind # "returned"
         THEN 1 + fftDepth(EvenPart(d), floorSplit)
         ELSE 1 + Max(fftDepth(EvenPart(d), floorSplit),
                      fftDepth(OddPart(d), floorSplit))

(***************************************************************************)
(* The inputs of fft.                                                      *)
(***************************************************************************)
RECURSIVE IsPowerOfTwo(_)
IsPowerOfTwo(n) ==
  n >= 1 /\ (n = 1 \/ (n % 2 = 0 /\ IsPowerOfTwo(n \div 2)))

\* Gaussian integers with |real| + |imag| <= m.
Ball(m) ==
  {Num(re, im) : re \in -m..m, im \in -m..m} \ 
  {c \in {Num(re, im) : re \in -m..m, im \in -m..m} :
     (IF c.r < 0 THEN -c.r ELSE c.r) + (IF c.i < 0 THEN -c.i ELSE c.i) > m}

\* The part of Ball(m) with real >= 0 and imag >= 0.
Quadrant(m) == {c \in Ball(m) : c.r >= 0 /\ c.i >= 0}

\* A fixed coarse set of samples.
UnitSamples == {Num(0, 0), Num(1, 0), Num(-1, 0), Num(0, 1)}

SignalsOver(S, n) == [1..n -> S]

\* Power-of-two lengths take every sample of Ball(MaxVal); the lengths on which
\* fft is not defined take the coarse samples.
FftInputs ==
  UNION {IF IsPowerOfTwo(n) THEN SignalsOver(Ball(MaxVal), n)
                            ELSE SignalsOver(UnitSamples, n) : n \in 0..MaxLen}

\* No phase value is being derived.
PhaseIdle == atanDegrees = 0 /\ phase = 0

\* No spectrum has been derived.
SpectrumIdle == amplitudeSpectrumData = <<>> /\ phaseSpectrumData = <<>>

\* useState of the twelve wave parameters of the current App (lines 753-764)
InitialParams ==
  [freq1 |-> 17, freq2 |-> 23, freq3 |-> 31,
   amp1 |-> Ratio(5, 1), amp2 |-> Ratio(5, 1), amp3 |-> Ratio(5, 1),
   decay1 |-> Ratio(3, 1000), decay2 |-> Ratio(5, 1000),
   decay3 |-> Ratio(1, 1000),
   phase1 |-> -120, phase2 |-> 77, phase3 |-> 0]

\* useState(33.201) and useState([0, 100])
InitialSelectedFrequency == Ratio(33201, 1000)
InitialFrequencyRange == <<0, 100>>

\* Before the first render no effect callback exists.
NoClosure ==
  [compositeWave |-> <<>>, selectedFrequency |-> Ratio(0, 1), params |-> <<>>]

\* No App is mounted.
AppIdle ==
  /\ params = InitialParams
  /\ selectedFrequency = InitialSelectedFrequency
  /\ frequencyRange = InitialFrequencyRange
  /\ dftDataForChart = <<>>
  /\ dftResultsForSelectedFrequency = NotCalled
  /\ closure = NoClosure
  /\ prevDeps = <<>>
  /\ dirty = FALSE
  /\ effectScheduled = FALSE
  /\ changes = 0
  /\ waveId = 0
  /\ sliderMoved = FALSE

ViewIdle == PhaseIdle /\ SpectrumIdle /\ AppIdle

Idle ==
  /\ other = <<>>
  /\ waves = <<>>
  /\ targetFrequency = 0
  /\ numPoints = 0
  /\ samplingRate = 1
  /\ called = "none"
  /\ result = NotCalled
  /\ resultOther = NotCalled
  /\ resultSum = NotCalled
  /\ centroid = InitialCentroid
  /\ ViewIdle
  /\ depth = 0

InitFft == data \in FftInputs /\ Idle

\* fftResults = fft(data), current version
CallFft ==
  /\ called = "none"
  /\ called' = "fft"
  /\ result' = fft(data)
  /\ depth' = fftDepth(data, FALSE)
  /\ UNCHANGED <<data, other, waves, targetFrequency, numPoints, samplingRate,
                 resultOther, resultSum, centroid, viewVars>>

\* fftResults = fft(data), backup version
CallFftBackup ==
  /\ called = "none"
  /\ called' = "fftBackup"
  /\ result' = fftBackup(data)
  /\ depth' = fftDepth(data, TRUE)
  /\ UNCHANGED <<data, other, waves, targetFrequency, numPoints, samplingRate,
                 resultOther, resultSum, centroid, viewVars>>

NextFft == CallFft \/ CallFftBackup

Spec == InitFft /\ [][NextFft]_vars

(***************************************************************************)
(* Claims about fft, checked under Spec.                                   *)
(***************************************************************************)
FftCalled == called \in {"fft", "fftBackup"}

\* exp(-2*pi*i*m/N) for N in {1, 2, 4}: the power (-i)^(4m/N).
RootOfUnity(m, N) ==
  LET t == ((4 \div N) * m) % 4
  IN CASE t = 0 -> Num(1, 0) [] t = 1 -> Num(0, -1) [] t = 2 -> Num(-1, 0)
     [] OTHER -> Num(0, 1)

\* The direct DFT sum over n in [0, upTo) of x[n] * exp(-2*pi*i*k*n/N).
RECURSIVE DftSum(_, _, _)
DftSum(x, k, upTo) ==
  IF upTo = 0 THEN Num(0, 0)
  ELSE LET rest == DftSum(x, k, upTo - 1)
           w == RootOfUnity(k * (upTo - 1), Len(x))
           s == x[upTo]
       IN Num(rest.r + s.r * w.r - s.i * w.i, rest.i + s.r * w.i + s.i * w.r)

Dft(x) == [j \in 1..Len(x) |-> DftSum(x, j - 1, Len(x))]

\* C1 (as claimed): fft called with a signal whose length is not a power of two
\* (3, 5, 6, ...) fails with the typed error InvalidLength and returns nothing.
C1_InvalidLength ==
  (FftCalled /\ Len(data) >= 3 /\ ~IsPowerOfTwo(Len(data)))
    => result.kind = "InvalidLength"

\* What the code does on those lengths: the current version throws a TypeError
\* out of the loop; the backup version throws a TypeError or returns an array
\* of the input's length whose last slot was never assigned.
C1_ActualBehaviour ==
  (FftCalled /\ Len(data) >= 3 /\ ~IsPowerOfTwo(Len(data)))
    => /\ called = "fft" => result.kind = "TypeError"
       /\ called = "fftBackup" =>
            \/ result.kind = "TypeError"
            \/ /\ result.kind = "returned"
               /\ Len(result.val) = Len(data)
               /\ result.val[Len(data)].tag = "undefined"

\* C2: for N in {1, 2, 4} and every input x of length N, fft(x)[k] is the
\* direct DFT sum of x at k, for every k in [0, N).
C2_FftIsDft ==
  (FftCalled /\ Len(data) \in {1, 2, 4}) => result = Returned(Dft(data))

C2_Witness ==
  /\ called = "fft"
  /\ Len(data) = 4
  /\ result.kind = "returned"
  /\ result.val[2] = Num(1, -1)
  /\ result.val[4] = Num(1, 1)

\* C3: for every power-of-two N >= 1, fft returns exactly N coefficients and
\* every index 0..N-1 of the result holds an assigned complex value.
C3_ExactlyNAssigned ==
  (FftCalled /\ IsPowerOfTwo(Len(data)))
    => /\ result.kind = "returned"
       /\ Len(result.val) = Len(data)
       /\ \A j \in 1..Len(data) : result.val[j].tag = "num"

C3_Witness ==
  /\ called = "fft"
  /\ Len(data) = 4
  /\ result.kind = "returned"
  /\ Len(result.val) = 4
  /\ \A j \in 1..4 : result.val[j].tag = "num" /\ result.val[j] # Num(0, 0)

\* The sum of |x[n]|^2 over the array.
RECURSIVE Energy(_)
Energy(x) ==
  IF x = <<>> THEN 0
  ELSE Head(x).r * Head(x).r + Head(x).i * Head(x).i + Energy(Tail(x))

\* C5: Parseval: N times the sum of |x[n]|^2 equals the sum of |X[k]|^2
\* for X = fft(x), on every power-of-two length.
C5_Parseval ==
  (called = "fft" /\ IsPowerOfTwo(Len(data)))
    => /\ result.kind = "returned"
       /\ Len(data) * Energy(data) = Energy(result.val)

C5_Witness ==
  /\ called = "fft"
  /\ Len(data) = 4
  /\ result.kind = "returned"
  /\ Energy(data) = 3
  /\ Energy(result.val) = 12

IsReal(x) == \A j \in 1..Len(x) : x[j].i = 0

\* C6: for a real-valued input of power-of-two length N >= 2, the output has
\* X[N-k].real = X[k].real and X[N-k].imag = -X[k].imag for every k in [1, N/2).
C6_ConjugateSymmetry ==
  (called = "fft" /\ IsPowerOfTwo(Len(data)) /\ Len(data) >= 2 /\ IsReal(data))
    => /\ result.kind = "returned"
       /\ \A k \in 1..(Len(data) \div 2 - 1) :
            /\ At(result.val, Len(data) - k).r = At(result.val, k).r
            /\ At(result.val, Len(data) - k).i = -At(result.val, k).i

C6_Witness ==
  /\ called = "fft"
  /\ Len(data) = 4
  /\ IsReal(data)
  /\ result.kind = "returned"
  /\ At(result.val, 1) = Num(1, -1)
  /\ At(result.val, 3) = Num(1, 1)

IsAllZero(x) == \A j \in 1..Len(x) : x[j] = Num(0, 0)

\* C7: fft of an all-zero signal of power-of-two length returns a signal of
\* the same length whose every coefficient has real part 0 and imaginary part 0.
C7_ZeroInZeroOut ==
  (called = "fft" /\ IsPowerOfTwo(Len(data)) /\ IsAllZero(data))
    => /\ result.kind = "returned"
       /\ Len(result.val) = Len(data)
       /\ \A j \in 1..Len(data) :
            result.val[j].tag = "num" /\ result.val[j].r = 0 /\ result.val[j].i = 0

C7_Witness ==
  /\ called = "fft"
  /\ Len(data) = 4
  /\ IsAllZero(data)
  /\ result = Returned(<<Num(0, 0), Num(0, 0), Num(0, 0), Num(0, 0)>>)

(***************************************************************************)
(* Linearity of fft: three calls, on data, on other and on their sum.      *)
(***************************************************************************)
\* The elementwise sum the caller builds, as compositeWave does.
SignalSum(a, b) ==
  [j \in 1..Len(a) |->
     Tagged(Combine(a[j], b[j]), a[j].r + b[j].r, a[j].i + b[j].i)]

LinPairs ==
  UNION {SignalsOver(Quadrant(MaxVal), n) \X SignalsOver(UnitSamples, n) :
           n \in {1, 2, 4}}

InitLin ==
  /\ \E pair \in LinPairs : data = pair[1] /\ other = pair[2]
  /\ waves = <<>>
  /\ targetFrequency = 0
  /\ numPoints = 0
  /\ samplingRate = 1
  /\ called = "none"
  /\ result = NotCalled
  /\ resultOther = NotCalled
  /\ resultSum = NotCalled
  /\ centroid = InitialCentroid
  /\ ViewIdle
  /\ depth = 0

\* fft(other), after fft(data)
CallFftOther ==
  /\ called = "fft"
  /\ resultOther = NotCalled
  /\ resultOther' = fft(other)
  /\ UNCHANGED <<data, other, waves, targetFrequency, numPoints, samplingRate,
                 called, result, resultSum, centroid, viewVars, depth>>

\* fft(data + other), after the other two
CallFftSum ==
  /\ resultOther # NotCalled
  /\ resultSum = NotCalled
  /\ resultSum' = fft(SignalSum(data, other))
  /\ UNCHANGED <<data, other, waves, targetFrequency, numPoints, samplingRate,
                 called, result, resultOther, centroid, viewVars, depth>>

NextLin == CallFft \/ CallFftOther \/ CallFftSum

SpecLin == InitLin /\ [][NextLin]_vars

\* C4: linearity: for equal-length power-of-two signals a and b, fft(a + b)
\* equals fft(a) + fft(b) at every bin.
C4_Linearity ==
  resultSum # NotCalled
    => /\ result.kind = "returned"
       /\ resultOther.kind = "returned"
       /\ resultSum = Returned(SignalSum(result.val, resultOther.val))

C4_Witness ==
  /\ resultSum # NotCalled
  /\ Len(data) = 4
  /\ ~IsAllZero(data)
  /\ ~IsAllZero(other)
  /\ resultSum.kind = "returned"
  /\ resultSum.val[2] = Num(1, -1)
  /\ result.val[2] = Num(1, 0)
  /\ resultOther.val[2] = Num(0, -1)

(***************************************************************************)
(* generateSineWave (lines 67-80 and 731-744, the same text).  amp and      *)
(* decay are quotients; freq and phase are whole numbers.  A sample is a   *)
(* whole number when the sine is 0, 1 or -1, amp is whole and no decay     *)
(* applies (Math.exp is exact at 0 only).                                  *)
(***************************************************************************)
\* angle = (index / numPoints) * freq * Math.PI * 2 + (phase * Math.PI) / 180;
\* amplitude = Math.sin(angle) * amp * Math.exp(-decay * index);
\* return { r: amplitude, i: 0 }
SineSample(index, points, freq, amp, decay, phaseDeg) ==
  LET cs == CosSin(360 * index * freq + phaseDeg * points, 360 * points)
  IN IF cs.tag = "NaN" THEN NaN
     ELSE IF amp.n = 0 \/ (cs.tag = "num" /\ cs.i = 0) THEN Num(0, 0)
     ELSE IF cs.tag # "num" \/ amp.d # 1 \/ decay.n * index # 0 THEN Inexact
     ELSE Num(cs.i * amp.n, 0)

\* A sample the model holds as 0 is the 0 of Math.sin(0) when the angle is 0
\* and amp is not negative; otherwise it is a product with the rounded sine
\* of a half turn (Math.sin(Math.PI) is 1.2e-16) or a zero of either sign.
SineSampleResidue(index, points, freq, amp, decay, phaseDeg) ==
  [r |-> /\ SineSample(index, points, freq, amp, decay, phaseDeg) = Num(0, 0)
         /\ ~(index * freq = 0 /\ phaseDeg = 0 /\ amp.n >= 0),
   i |-> FALSE]

\* Array.from({ length: numPoints }, (_, index) => ...)
generateSineWave(points, freq, amp, decay, phaseDeg) ==
  [j \in 1..points |-> SineSample(j - 1, points, freq, amp, decay, phaseDeg)]

generateSineWaveResidue(points, freq, amp, decay, phaseDeg) ==
  [j \in 1..points |->
     SineSampleResidue(j - 1, points, freq, amp, decay, phaseDeg)]

\* sineWave1, sineWave2, sineWave3 of a render; the waves that
\* generateCompositeWave builds from [freq1, freq2, freq3], ...
SineWavesOf(p, points) ==
  <<generateSineWave(points, p.freq1, p.amp1, p.decay1, p.phase1),
    generateSineWave(points, p.freq2, p.amp2, p.decay2, p.phase2),
    generateSineWave(points, p.freq3, p.amp3, p.decay3, p.phase3)>>

\* A sum of the three waves at an index holds a residue where one of them does.
CompositeResidue(p, points) ==
  LET r1 == generateSineWaveResidue(points, p.freq1, p.amp1, p.decay1, p.phase1)
      r2 == generateSineWaveResidue(points, p.freq2, p.amp2, p.decay2, p.phase2)
      r3 == generateSineWaveResidue(points, p.freq3, p.amp3, p.decay3, p.phase3)
  IN [j \in 1..points |-> [r |-> r1[j].r \/ r2[j].r \/ r3[j].r, i |-> FALSE]]

(***************************************************************************)
(* Composition of waves.  The code builds the waves with generateSineWave  *)
(* and sums them in place; the sums are modelled as functions of the list  *)
(* of waves.                                                               *)
(***************************************************************************)
\* Current version: sineWave1.map((point, index) => ({ r: point.r +
\* sineWave2[index].r + sineWave3[index].r, i: point.i + sineWave2[index].i +
\* sineWave3[index].i })), with sineWave1..3 = w[1], w[2], w[3].
compositeWave(w) ==
  IF \E index \in 0..(Len(w[1]) - 1) :
       At(w[2], index).tag = "undefined" \/ At(w[3], index).tag = "undefined"
  THEN Threw("TypeError")
  ELSE Returned([j \in 1..Len(w[1]) |->
                   Tagged(Combine(w[1][j], [tag |-> Combine(w[2][j], w[3][j])]),
                          w[1][j].r + w[2][j].r + w[3][j].r,
                          w[1][j].i + w[2][j].i + w[3][j].i)])

\* Mutant of Accumulate: = typed for += (acc.r = wave[index].r).
AccumulateAssigned(acc, sample) ==
  Tagged(Combine(acc, sample), sample.r, acc.i)

\* acc.r += wave[index].r; return acc;   (the imaginary part of acc is not touched).
\* A tag covers the whole slot: the sum of an inexact or NaN operand is one.
Accumulate(acc, sample) ==
  Tagged(Combine(acc, sample), acc.r + sample.r, acc.i)

\* waves.reduce((acc, wave) => ..., { r: 0, i: 0 }) at one index, from wave j on;
\* the reduction ends where wave[index] is undefined (the TypeError)
RECURSIVE ReduceWaves(_, _, _, _)
ReduceWaves(w, index, j, acc) ==
  IF j > Len(w) \/ At(w[j], index).tag = "undefined" THEN acc
  ELSE ReduceWaves(w, index, j + 1, Accumulate(acc, At(w[j], index)))

\* Mutant of AccumulatorStart: reduce without an initial value, so that the
\* accumulator is the first wave's sample object and the callback writes to it.
AccumulatorStartFirstWave(w, index) ==
  [object |-> "waves[0][index]", val |-> At(w[1], index), from |-> 2]

\* The accumulator a reduction starts with: the object literal { r: 0, i: 0 },
\* a new object for every index, and the wave the callback is first called on.
AccumulatorStart(w, index) ==
  [object |-> "new", val |-> Num(0, 0), from |-> 1]

\* The accumulator after the reduction at one index
ReduceAt(w, index) ==
  ReduceWaves(w, index, AccumulatorStart(w, index).from, AccumulatorStart(w, index).val)

\* The reduction at this index is reached and ends without a TypeError.
Reduces(w, index) ==
  \A n \in 0..index : \A j \in 1..Len(w) : At(w[j], n).tag # "undefined"

\* The waves after the call: acc.r += wave[index].r writes to the accumulator
\* object, which is a sample of the first wave only if the reduction started
\* with it.  The indices up to the first one that throws are reduced.
WavesAfterGenerate(w) ==
  IF w = <<>> THEN w
  ELSE [j \in 1..Len(w) |->
          IF j # 1 THEN w[j]
          ELSE [n \in 1..Len(w[1]) |->
                  IF /\ AccumulatorStart(w, n - 1).object # "new"
                     /\ (n = 1 \/ Reduces(w, n - 2))
                    THEN ReduceAt(w, n - 1)
                    ELSE w[1][n]]]

\* Backup version: return waves[0].map((_, index) => waves.reduce(...)).
\* wave[index].r throws when wave[index] is undefined.
generateCompositeWave(w) ==
  IF w = <<>> THEN Threw("TypeError")
  ELSE IF \E index \in 0..(Len(w[1]) - 1) : \E j \in 1..Len(w) :
            At(w[j], index).tag = "undefined"
       THEN Threw("TypeError")
       ELSE Returned([n \in 1..Len(w[1]) |-> ReduceAt(w, n - 1)])

\* compositeWave = sineWave1.map(...) of the current App (lines 775-780)
CompositeOf(p, points) == compositeWave(SineWavesOf(p, points)).val

\* compositeWave = generateCompositeWave(numPoints, [freq1, freq2, freq3],
\* [amp1, amp2, amp3], [decay1, decay2, decay3], [phase1, phase2, phase3])
CompositeOfBackup(p, points) == generateCompositeWave(SineWavesOf(p, points)).val

MaxComposePoints == 4   \* the waves are generated with numPoints in 0..MaxComposePoints

\* The parameters the three waves are generated with, each within the range
\* of its slider.
WaveParams ==
  [freq1 : {1, 2}, freq2 : {1, 2}, freq3 : {1, 2},
   amp1 : {Ratio(1, 1), Ratio(2, 1)}, amp2 : {Ratio(1, 1), Ratio(2, 1)},
   amp3 : {Ratio(1, 1), Ratio(2, 1)},
   decay1 : {Ratio(0, 1), Ratio(3, 1000)}, decay2 : {Ratio(0, 1)},
   decay3 : {Ratio(0, 1)},
   phase1 : {0, 90}, phase2 : {0, 90}, phase3 : {0, 90}]

\* The waves are built as the App builds them: three of them, by
\* generateSineWave, with one numPoints.
InitCompose ==
  /\ numPoints \in 0..MaxComposePoints
  /\ params \in WaveParams
  /\ waves = SineWavesOf(params, numPoints)
  /\ data = <<>>
  /\ other = <<>>
  /\ targetFrequency = 0
  /\ samplingRate = 1
  /\ called = "none"
  /\ result = NotCalled
  /\ resultOther = NotCalled
  /\ resultSum = NotCalled
  /\ centroid = InitialCentroid
  /\ PhaseIdle
  /\ SpectrumIdle
  /\ selectedFrequency = InitialSelectedFrequency
  /\ frequencyRange = InitialFrequencyRange
  /\ dftDataForChart = <<>>
  /\ dftResultsForSelectedFrequency = NotCalled
  /\ closure = NoClosure
  /\ prevDeps = <<>>
  /\ dirty = FALSE
  /\ effectScheduled = FALSE
  /\ changes = 0
  /\ waveId = 0
  /\ sliderMoved = FALSE
  /\ depth = 0

\* compositeWave of the current App: three waves
CallCompose ==
  /\ called = "none"
  /\ Len(waves) = 3
  /\ called' = "compositeWave"
  /\ result' = compositeWave(waves)
  /\ UNCHANGED <<data, other, waves, targetFrequency, numPoints, samplingRate,
                 resultOther, resultSum, centroid, viewVars, depth>>

\* generateCompositeWave of the backup version: as many waves as frequencies
CallComposeBackup ==
  /\ called = "none"
  /\ called' = "generateCompositeWave"
  /\ result' = generateCompositeWave(waves)
  /\ waves' = WavesAfterGenerate(waves)
  /\ UNCHANGED <<data, other, targetFrequency, numPoints, samplingRate,
                 resultOther, resultSum, centroid, viewVars, depth>>

NextCompose == CallCompose \/ CallComposeBackup

SpecCompose == InitCompose /\ [][NextCompose]_vars

ComposeCalled == called \in {"compositeWave", "generateCompositeWave"}

\* The sum over the waves j..Len(w) of both components of the sample at n.
RECURSIVE SumAt(_, _, _)
SumAt(w, n, j) ==
  IF j > Len(w) THEN Num(0, 0)
  ELSE LET rest == SumAt(w, n, j + 1)
       IN Tagged(Combine(w[j][n], rest), w[j][n].r + rest.r, w[j][n].i + rest.i)

\* A sample scaled by k.
Scaled(c, k) == Tagged(c.tag, k * c.r, k * c.i)

C9_IdenticalWitness ==
  /\ called = "compositeWave"
  /\ waves[1] = <<Num(1, 0), Num(0, 0), Num(-1, 0), Num(0, 0)>>
  /\ waves[2] = waves[1]
  /\ waves[3] = waves[1]
  /\ result = Returned(<<Num(3, 0), Num(0, 0), Num(-3, 0), Num(0, 0)>>)

(***************************************************************************)
(* calculateDFTForFrequency: the per-sample rotation of the signal by the  *)
(* target frequency.  The backup version (lines 219-239) has the same text.*)
(***************************************************************************)
\* Mutant of RotateSample: Math.sin and Math.cos exchanged.
RotateSampleSwapped(d, cs) ==
  Tagged(Combine(d, cs), d.r * cs.i - d.i * cs.r, d.i * cs.i + d.r * cs.r)

\* realPart = data[n].r * Math.cos(angle) - data[n].i * Math.sin(angle)
\* imagPart = data[n].i * Math.cos(angle) + data[n].r * Math.sin(angle)
\* with cs = { r: Math.cos(angle), i: Math.sin(angle) }
RotateSample(d, cs) ==
  Tagged(Combine(d, cs), d.r * cs.r - d.i * cs.i, d.i * cs.r + d.r * cs.i)

\* Mutant of ProjectionAngle: the rotation taken with the DFT's sign (angle = -freqRad * n).
ProjectionAngleNegated(f, n, rate) == CosSin(-(f * n), rate)

\* angle = freqRad * n with freqRad = (2 * Math.PI * targetFrequency) / samplingRate:
\* targetFrequency * n / samplingRate of a turn.
ProjectionAngle(f, n, rate) == CosSin(f * n, rate)

\* Mutant of calculateDFTForFrequency: the loop stops one sample early (n < numPoints - 1).
calculateDFTOneShort(d, f, points, rate) ==
  IF points - 1 > Len(d) THEN Threw("TypeError")
  ELSE Returned([j \in 1..(points - 1) |->
                   RotateSample(d[j], ProjectionAngle(f, j - 1, rate))])

\* for (let n = 0; n < numPoints; n++) { ...; dftResults.push(...) } return dftResults;
\* data[n].r throws when n is past the end of data.
calculateDFTForFrequency(d, f, points, rate) ==
  IF points > Len(d) THEN Threw("TypeError")
  ELSE Returned([j \in 1..points |->
                   RotateSample(d[j], ProjectionAngle(f, j - 1, rate))])

ProjectionLengths == 0..4
SamplingRates == {-1, 0, 1, 2, 3, 4, 8}

InitProject ==
  /\ data \in UNION {SignalsOver(Quadrant(MaxVal), n) : n \in ProjectionLengths}
  /\ Idle

CallProject ==
  /\ called = "none"
  /\ \E f \in 0..MaxFreq, rate \in SamplingRates,
        points \in {Len(data) - 1, Len(data), Len(data) + 1} \cap Nat :
       /\ targetFrequency' = f
       /\ samplingRate' = rate
       /\ numPoints' = points
       /\ result' = calculateDFTForFrequency(data, f, points, rate)
  /\ called' = "calculateDFTForFrequency"
  /\ UNCHANGED <<data, other, waves, resultOther, resultSum, centroid, viewVars, depth>>

(***************************************************************************)
(* The centroid of a trajectory, as the effect of App computes it.         *)
(***************************************************************************)
\* dftResults.reduce((acc, point) => ({ r: acc.r + point.r, i: acc.i + point.i }),
\*                   { r: 0, i: 0 })
\* { r: acc.r + point.r, i: acc.i + point.i }, each operand taken once
AddPoint(acc, point) ==
  CHOOSE sum \in {Tagged(Combine(a, p), a.r + p.r, a.i + p.i) :
                    a \in {acc}, p \in {point}} : TRUE

RECURSIVE TotalFrom(_, _, _)
TotalFrom(traj, j, acc) ==
  IF j > Len(traj) THEN acc
  ELSE TotalFrom(traj, j + 1, AddPoint(acc, traj[j]))

Total(traj) == TotalFrom(traj, 1, Num(0, 0))

\* The factor of the current version: (total.r / dftResults.length) * 2
CentroidScale == 2

\* One part of the centroid: (part / length) * scale
ScaledMean(part, length, scale) ==
  Ratio(Ratio(part, length).n * scale, Ratio(part, length).d)

\* Current version: { r: (total.r / dftResults.length) * 2,
\*                    i: (total.i / dftResults.length) * 2 }.
\* An empty trajectory divides 0 by 0: NaN.
centroidCurrent(traj) ==
  IF Len(traj) = 0 THEN RatioTagged("NaN")
  ELSE IF Total(traj).tag # "num" THEN RatioTagged(Total(traj).tag)
  ELSE RatioNum(ScaledMean(Total(traj).r, Len(traj), CentroidScale),
                ScaledMean(Total(traj).i, Len(traj), CentroidScale))

\* Backup version: { r: total.r / dftResults.length, i: total.i / dftResults.length }
centroidBackup(traj) ==
  IF Len(traj) = 0 THEN RatioTagged("NaN")
  ELSE IF Total(traj).tag # "num" THEN RatioTagged(Total(traj).tag)
  ELSE RatioNum(Ratio(Total(traj).r, Len(traj)), Ratio(Total(traj).i, Len(traj)))

\* The body of the effect of the current App: the projection, setDftDataForChart,
\* the total and setCentroid.  The two setters each store a new object, which
\* asks for a render.  A throw in the projection leaves the trajectory on
\* display and the centroid as they were, and no setter is called.
RunEffect ==
  /\ called = "none"
  /\ \E f \in 0..MaxFreq, rate \in SamplingRates,
        points \in {Len(data) - 1, Len(data), Len(data) + 1} \cap Nat :
       /\ targetFrequency' = f
       /\ samplingRate' = rate
       /\ numPoints' = points
       /\ result' = calculateDFTForFrequency(data, f, points, rate)
  /\ dftDataForChart' = IF result'.kind = "returned" THEN result'.val
                        ELSE dftDataForChart
  /\ centroid' = IF result'.kind = "returned" THEN centroidCurrent(result'.val)
                 ELSE centroid
  /\ dirty' = (dirty \/ result'.kind = "returned")
  /\ called' = "useEffect"
  /\ UNCHANGED <<data, other, waves, resultOther, resultSum, phaseVars,
                 spectrumVars, params, selectedFrequency, frequencyRange,
                 closure, prevDeps, effectScheduled, changes, backupVars,
                 depth>>

\* The body of the effect of the backup App.
RunEffectBackup ==
  /\ called = "none"
  /\ \E f \in 0..MaxFreq, rate \in SamplingRates,
        points \in {Len(data) - 1, Len(data), Len(data) + 1} \cap Nat :
       /\ targetFrequency' = f
       /\ samplingRate' = rate
       /\ numPoints' = points
       /\ result' = calculateDFTForFrequency(data, f, points, rate)
  /\ dftDataForChart' = IF result'.kind = "returned" THEN result'.val
                        ELSE dftDataForChart
  /\ centroid' = IF result'.kind = "returned" THEN centroidBackup(result'.val)
                 ELSE centroid
  /\ dirty' = (dirty \/ result'.kind = "returned")
  /\ called' = "useEffectBackup"
  /\ UNCHANGED <<data, other, waves, resultOther, resultSum, phaseVars,
                 spectrumVars, params, selectedFrequency, frequencyRange,
                 closure, prevDeps, effectScheduled, changes, backupVars,
                 depth>>

NextProject == CallProject \/ RunEffect \/ RunEffectBackup

SpecProject == InitProject /\ [][NextProject]_vars

\* C10: with targetFrequency = 0 the trajectory equals the input signal sample
\* for sample, for every signal (of numPoints samples) and every positive
\* samplingRate.
C10_ZeroFrequencyIdentity ==
  (/\ called = "calculateDFTForFrequency"
   /\ targetFrequency = 0
   /\ samplingRate > 0
   /\ numPoints = Len(data))
    => result = Returned(data)

C10_Witness ==
  /\ called = "calculateDFTForFrequency"
  /\ targetFrequency = 0
  /\ samplingRate = 3
  /\ numPoints = 4
  /\ data = <<Num(1, 0), Num(0, 1), Num(0, 0), Num(1, 0)>>
  /\ result = Returned(data)

\* The bin k in [0, N/2) the target frequency is aligned with: f = k * rate / N.
IsBinAligned(f, N, rate) ==
  /\ rate > 0
  /\ (f * N) % rate = 0
  /\ 2 * ((f * N) \div rate) < N

BinOf(f, N, rate) == (f * N) \div rate

\* C11 (as claimed): for a bin-aligned target frequency f = k * rate / N, k in
\* [0, N/2), and a power-of-two-length signal x, the centroid is
\* scale * fft(x)[k] / N, in its real and in its imaginary part.
C11_CentroidIsDftBin ==
  (/\ called = "useEffect"
   /\ IsPowerOfTwo(Len(data))
   /\ numPoints = Len(data)
   /\ IsBinAligned(targetFrequency, Len(data), samplingRate))
    => LET X == At(fft(data).val, BinOf(targetFrequency, Len(data), samplingRate))
       IN centroid = RatioNum(Ratio(CentroidScale * X.r, Len(data)),
                              Ratio(CentroidScale * X.i, Len(data)))

\* C11 (amended): under the same conditions the centroid is
\* scale * fft(x)[(N - k) mod N] / N, the coefficient of the mirrored bin; for
\* a real-valued x that is the complex conjugate of scale * fft(x)[k] / N.
C11_CentroidIsMirroredBin ==
  (/\ called = "useEffect"
   /\ IsPowerOfTwo(Len(data))
   /\ numPoints = Len(data)
   /\ IsBinAligned(targetFrequency, Len(data), samplingRate))
    => LET k == BinOf(targetFrequency, Len(data), samplingRate)
           X == At(fft(data).val, (Len(data) - k) % Len(data))
           Xk == At(fft(data).val, k)
       IN /\ centroid = RatioNum(Ratio(CentroidScale * X.r, Len(data)),
                                 Ratio(CentroidScale * X.i, Len(data)))
          /\ IsReal(data) =>
               centroid = RatioNum(Ratio(CentroidScale * Xk.r, Len(data)),
                                   Ratio(-CentroidScale * Xk.i, Len(data)))

C11_Witness ==
  /\ called = "useEffect"
  /\ data = <<Num(0, 0), Num(1, 0), Num(0, 0), Num(0, 0)>>
  /\ numPoints = 4
  /\ targetFrequency = 1
  /\ samplingRate = 4
  /\ At(fft(data).val, 1) = Num(0, -1)
  /\ centroid = RatioNum(Ratio(0, 1), Ratio(1, 2))

ProjectionCalled == called \in {"calculateDFTForFrequency", "useEffect", "useEffectBackup"}

\* C12: the projection accepts a signal of any length, power of two or not, and
\* returns exactly numPoints samples, one per input sample; out[n] is the
\* rotation of data[n] by the angle of index n, and the output is as long as
\* the input.
C12_OneSamplePerInput ==
  (ProjectionCalled /\ numPoints = Len(data))
    => /\ result.kind = "returned"
       /\ Len(result.val) = numPoints
       /\ Len(result.val) = Len(data)
       /\ \A j \in 1..Len(data) :
            result.val[j] =
              RotateSample(data[j], CosSin(targetFrequency * (j - 1), samplingRate))

C12_Witness ==
  /\ called = "calculateDFTForFrequency"
  /\ data = <<Num(1, 0), Num(0, 1), Num(1, 0)>>
  /\ numPoints = 3
  /\ targetFrequency = 1
  /\ samplingRate = 4
  /\ result = Returned(<<Num(1, 0), Num(-1, 0), Num(-1, 0)>>)

\* The mean of the parts of a trajectory, times scale.
MeanTimes(traj, scale) ==
  RatioNum(Ratio(scale * Total(traj).r, Len(traj)),
           Ratio(scale * Total(traj).i, Len(traj)))

IsExact(traj) == \A j \in 1..Len(traj) : traj[j].tag = "num"

EffectRan == called \in {"useEffect", "useEffectBackup"}

\* C13 (as claimed): the centroid of a trajectory of length M >= 1 is
\* (sum of the real parts / M) * 2 and (sum of the imaginary parts / M) * 2,
\* with the same factor 2 in every place the centroid is computed.
C13_SameScaleEverywhere ==
  (EffectRan /\ result.kind = "returned" /\ Len(result.val) >= 1 /\ IsExact(result.val))
    => centroid = MeanTimes(result.val, 2)

\* What the code does: the current version scales the mean by 2, the backup
\* version does not scale it.
C13_ActualBehaviour ==
  (EffectRan /\ result.kind = "returned" /\ Len(result.val) >= 1 /\ IsExact(result.val))
    => centroid = MeanTimes(result.val, IF called = "useEffect" THEN 2 ELSE 1)

(***************************************************************************)
(* The phase-spectrum value of one coefficient, from the result of         *)
(* Math.atan2(c.i, c.r) in whole degrees, -180..180.                       *)
(***************************************************************************)
\* The offset the current version adds: ... * 180) / Math.PI + 90
PhaseOffset == 90

\* Mutant of phaseOf: the wrap taken at 180 already (phase >= 180).
phaseOfWrapAt180(a) ==
  IF a + PhaseOffset >= 180 THEN a + PhaseOffset - 360 ELSE a + PhaseOffset

\* Current version: let phase = (Math.atan2(c.i, c.r) * 180) / Math.PI + 90;
\*                  if (phase > 180) phase += -360; return phase;
phaseOf(a) ==
  IF a + PhaseOffset > 180 THEN a + PhaseOffset - 360 ELSE a + PhaseOffset

\* Backup version: phase: (phase * 180) / Math.PI   (no offset, no wrap)
phaseOfBackup(a) == a

AtanResults == -180..180

InitPhase ==
  /\ atanDegrees \in AtanResults
  /\ phase = 0
  /\ data = <<>>
  /\ other = <<>>
  /\ waves = <<>>
  /\ targetFrequency = 0
  /\ numPoints = 0
  /\ samplingRate = 1
  /\ called = "none"
  /\ result = NotCalled
  /\ resultOther = NotCalled
  /\ resultSum = NotCalled
  /\ centroid = InitialCentroid
  /\ SpectrumIdle
  /\ AppIdle
  /\ depth = 0

DerivePhase ==
  /\ called = "none"
  /\ called' = "phaseSpectrum"
  /\ phase' = phaseOf(atanDegrees)
  /\ UNCHANGED <<data, other, waves, targetFrequency, numPoints, samplingRate,
                 result, resultOther, resultSum, centroid, atanDegrees,
                 spectrumVars, appVars, depth>>

DerivePhaseBackup ==
  /\ called = "none"
  /\ called' = "phaseSpectrumBackup"
  /\ phase' = phaseOfBackup(atanDegrees)
  /\ UNCHANGED <<data, other, waves, targetFrequency, numPoints, samplingRate,
                 result, resultOther, resultSum, centroid, atanDegrees,
                 spectrumVars, appVars, depth>>

NextPhase == DerivePhase \/ DerivePhaseBackup

SpecPhase == InitPhase /\ [][NextPhase]_vars

PhaseDerived == called \in {"phaseSpectrum", "phaseSpectrumBackup"}

\* C14 (as claimed): every phase-spectrum value lies in (-180, 180], for every
\* result of atan2 from -180 to 180 degrees inclusive.
C14_PhaseInHalfOpenInterval ==
  PhaseDerived => (-180 < phase /\ phase <= 180)

\* C14 (amended): in the current version the value is the atan2 result plus 90,
\* less 360 exactly when that exceeds 180, and lies in (-180, 180]; in the
\* backup version it is the atan2 result itself, with no offset and no wrap,
\* and lies in [-180, 180].
C14_PhaseRange ==
  /\ called = "phaseSpectrum" =>
       /\ -180 < phase /\ phase <= 180
       /\ phase = IF atanDegrees + 90 > 180 THEN atanDegrees + 90 - 360
                  ELSE atanDegrees + 90
  /\ called = "phaseSpectrumBackup" =>
       /\ -180 <= phase /\ phase <= 180
       /\ phase = atanDegrees

C14_Witness ==
  /\ called = "phaseSpectrum"
  /\ atanDegrees = 135
  /\ phase = -135

(***************************************************************************)
(* The spectra the current App derives from fft(compositeWave).  A value   *)
(* of Math.atan2 is exact in degrees on the axes and the diagonals only;   *)
(* an amplitude (a square root) is held by its square.                     *)
(*                                                                         *)
(* Math.cos and Math.sin do not return 0 where the cosine or the sine is   *)
(* 0 (Math.cos(-Math.PI / 2) is 6.1e-17): the value leaves a residue of    *)
(* rounding in the coefficients of fft, far below the values themselves.   *)
(* An amplitude is not moved by it; Math.atan2 is, where the residue       *)
(* decides the quadrant.  The residue is followed through fft part by      *)
(* part as a flag: FALSE when the part is the whole number the model       *)
(* holds, TRUE when rounding may have moved it.                            *)
(***************************************************************************)
\* Math.cos(angle) and Math.sin(angle) for angle = 2*pi*p/q: 1 and -1 are
\* returned as such, a 0 is returned as such for the angle 0 only.
CosSinResidue(p, q) ==
  IF q = 0 \/ ~IsQuarterTurns(p, q) THEN NoResidue
  ELSE [r |-> CosQuarter(QuarterTurns(p, q)) = 0,
        i |-> SinQuarter(QuarterTurns(p, q)) = 0 /\ p # 0]

\* exp of the pass k of the loop
TwiddleResidue(k, N) == CosSinResidue(-k, N)

\* x * y: a residue in one factor stays unless the other factor is 0.
ProductResidue(x, xRes, y, yRes) ==
  \/ xRes /\ (y # 0 \/ yRes)
  \/ yRes /\ (x # 0 \/ xRes)

\* temp = exp * odd[k]
TempResidue(exp, expRes, o, oRes) ==
  [r |-> \/ ProductResidue(exp.r, expRes.r, o.r, oRes.r)
         \/ ProductResidue(exp.i, expRes.i, o.i, oRes.i),
   i |-> \/ ProductResidue(exp.i, expRes.i, o.r, oRes.r)
         \/ ProductResidue(exp.r, expRes.r, o.i, oRes.i)]

\* results[k] = even[k] + temp and results[k + half] = even[k] - temp
SumResidue(eRes, tempRes) == [r |-> eRes.r \/ tempRes.r, i |-> eRes.i \/ tempRes.i]

\* The flags of fft(d), slot by slot, for a signal whose samples hold the
\* flags given; those of the signal itself where fft returns its argument,
\* and all FALSE where fft throws.
RECURSIVE fftResidueFrom(_, _)
fftResidueFrom(d, flags) ==
  IF Len(d) <= 1 THEN flags
  ELSE IF fft(d).kind # "returned" THEN [j \in 1..Len(d) |-> NoResidue]
  ELSE LET N == Len(d)
           half == N \div 2
           odd == fft(OddPart(d)).val
           evenRes == fftResidueFrom(EvenPart(d), EvenPart(flags))
           oddRes == fftResidueFrom(OddPart(d), OddPart(flags))
       IN [j \in 1..N |->
             LET k == (j - 1) % half
             IN SumResidue(evenRes[k + 1],
                           TempResidue(Twiddle(k, N), TwiddleResidue(k, N),
                                       odd[k + 1], oddRes[k + 1]))]

\* The flags of fft(d) for a signal of whole numbers.
fftResidue(d) == fftResidueFrom(d, [j \in 1..Len(d) |-> NoResidue])

\* Math.atan2(c.i, c.r) is settled by the residue alone when both parts are 0,
\* and falls on either side of 90 degrees, where the phase wraps from 180 to
\* -180, when the real part is a residue and the imaginary part is positive.
RoundingDecidesPhase(c, res) ==
  \/ c.r = 0 /\ c.i = 0 /\ (res.r \/ res.i)
  \/ c.r = 0 /\ c.i > 0 /\ res.r

\* Math.atan2(y, x) in degrees
Atan2Degrees(y, x) ==
  IF y = 0 THEN [tag |-> "num", deg |-> IF x < 0 THEN 180 ELSE 0]
  ELSE IF x = 0 THEN [tag |-> "num", deg |-> IF y > 0 THEN 90 ELSE -90]
  ELSE IF Abs(x) = Abs(y)
    THEN [tag |-> "num",
          deg |-> IF y > 0 THEN (IF x > 0 THEN 45 ELSE 135)
                  ELSE (IF x > 0 THEN -45 ELSE -135)]
  ELSE [tag |-> "inexact", deg |-> 0]

\* Mutant of HalfLength: the spectra keep every bin (no slice).
HalfLengthWhole(points) == points

\* { length: numPoints / 2 } and .slice(0, numPoints / 2): the whole part
HalfLength(points) == points \div 2

\* frequencyAxis[i] = (i * samplingRate) / numPoints
frequencyAxis(i, rate, points) == Ratio(i * rate, points)

\* amplitudeSpectrum[k] = Math.sqrt(c.r ** 2 + c.i ** 2), then
\* amp: (amp * 2) / numPoints; held as the square of that value
AmplitudePoint(c, i, rate, points) ==
  IF c.tag # "num"
    THEN [frequency |-> frequencyAxis(i, rate, points), tag |-> c.tag,
          ampSquared |-> Ratio(0, 1)]
    ELSE [frequency |-> frequencyAxis(i, rate, points), tag |-> "num",
          ampSquared |-> Ratio((c.r * c.r + c.i * c.i) * 2 * 2, points * points)]

\* The backup version keeps Math.atan2 as it is: a residue settles it when
\* both parts are 0 and puts it at 180 or at -180 when the imaginary part is
\* a residue and the real part is negative.
RoundingDecidesPhaseBackup(c, res) ==
  \/ c.r = 0 /\ c.i = 0 /\ (res.r \/ res.i)
  \/ c.i = 0 /\ c.r < 0 /\ res.i

\* Backup version: phaseSpectrum[k] = Math.atan2(c.i, c.r), then
\* { frequency: frequencyAxis[index], phase: (phase * 180) / Math.PI }
PhasePointBackup(c, res, i, rate, points) ==
  IF c.tag # "num" \/ Atan2Degrees(c.i, c.r).tag # "num"
       \/ RoundingDecidesPhaseBackup(c, res)
    THEN [frequency |-> frequencyAxis(i, rate, points),
          tag |-> IF c.tag # "num" THEN c.tag ELSE "inexact", phase |-> 0]
    ELSE [frequency |-> frequencyAxis(i, rate, points), tag |-> "num",
          phase |-> phaseOfBackup(Atan2Degrees(c.i, c.r).deg)]

\* phaseSpectrum[k], then { frequency: frequencyAxis[index], phase: phase }
PhasePoint(c, res, i, rate, points) ==
  IF c.tag # "num" \/ Atan2Degrees(c.i, c.r).tag # "num"
       \/ RoundingDecidesPhase(c, res)
    THEN [frequency |-> frequencyAxis(i, rate, points),
          tag |-> IF c.tag # "num" THEN c.tag ELSE "inexact", phase |-> 0]
    ELSE [frequency |-> frequencyAxis(i, rate, points), tag |-> "num",
          phase |-> phaseOf(Atan2Degrees(c.i, c.r).deg)]

amplitudeSpectrumDataOf(X, rate, points) ==
  [j \in 1..HalfLength(points) |-> AmplitudePoint(X[j], j - 1, rate, points)]

phaseSpectrumDataOf(X, residue, rate, points) ==
  [j \in 1..HalfLength(points) |->
     PhasePoint(X[j], residue[j], j - 1, rate, points)]

phaseSpectrumDataOfBackup(X, residue, rate, points) ==
  [j \in 1..HalfLength(points) |->
     PhasePointBackup(X[j], residue[j], j - 1, rate, points)]

SpectrumRates == {-1, 0, 1, 2, 4, 1000}

\* One render of the App up to the two spectra; compositeWave has numPoints
\* samples.
DeriveSpectra ==
  /\ called = "none"
  /\ \E rate \in SpectrumRates :
       /\ samplingRate' = rate
       /\ numPoints' = Len(data)
       /\ result' = fft(data)
       /\ depth' = fftDepth(data, FALSE)
       /\ IF result'.kind = "returned"
            THEN /\ amplitudeSpectrumData' =
                      amplitudeSpectrumDataOf(result'.val, rate, Len(data))
                 /\ phaseSpectrumData' =
                      phaseSpectrumDataOf(result'.val, fftResidue(data), rate,
                                          Len(data))
            ELSE UNCHANGED spectrumVars
  /\ called' = "spectra"
  /\ UNCHANGED <<data, other, waves, targetFrequency, resultOther, resultSum,
                 centroid, phaseVars, appVars>>

NextSpectrum == DeriveSpectra

SpecSpectrum == InitFft /\ [][NextSpectrum]_vars

SpectraDerived == called = "spectra" /\ result.kind = "returned"

\* C15: for a power-of-two N (two or more) the amplitude and the phase
\* spectrum each have exactly N/2 points, one per bin k in [0, N/2); point k
\* has frequency k * samplingRate / N and its value comes from the fft
\* coefficient X[k] of the same k.  A phase is compared where the model holds
\* it: on the axes and the diagonals, and not where rounding decides it.
C15_SingleSidedSpectra ==
  (SpectraDerived /\ IsPowerOfTwo(Len(data)) /\ Len(data) >= 2) =>
    LET N == Len(data)
        X == result.val
    IN /\ 2 * Len(amplitudeSpectrumData) = N
       /\ 2 * Len(phaseSpectrumData) = N
       /\ \A k \in 0..(N \div 2 - 1) :
            LET a == amplitudeSpectrumData[k + 1]
                p == phaseSpectrumData[k + 1]
            IN /\ a.frequency.n * N = k * samplingRate * a.frequency.d
               /\ p.frequency = a.frequency
               /\ a.tag = X[k + 1].tag
               /\ a.tag = "num" =>
                    a.ampSquared.n * N * N
                      = 4 * (X[k + 1].r * X[k + 1].r + X[k + 1].i * X[k + 1].i)
                          * a.ampSquared.d
               /\ p.tag = "num" =>
                    /\ Atan2Degrees(X[k + 1].i, X[k + 1].r).tag = "num"
                    /\ ~RoundingDecidesPhase(X[k + 1], fftResidue(data)[k + 1])
                    /\ p.phase = phaseOf(Atan2Degrees(X[k + 1].i, X[k + 1].r).deg)

C15_Witness ==
  /\ SpectraDerived
  /\ data = <<Num(1, 0), Num(0, 0), Num(-1, 0), Num(0, 0)>>
  /\ samplingRate = 1000
  /\ result.val[2] = Num(2, 0)
  /\ Len(amplitudeSpectrumData) = 2
  /\ amplitudeSpectrumData[2] =
       [frequency |-> Ratio(250, 1), tag |-> "num", ampSquared |-> Ratio(1, 1)]
  /\ phaseSpectrumData[2] =
       [frequency |-> Ratio(250, 1), tag |-> "num", phase |-> 90]

\* C16: a projection called with samplingRate <= 0 fails at once with the
\* typed error InvalidParameter and produces no trajectory.
C16_InvalidParameter ==
  (ProjectionCalled /\ samplingRate <= 0) => result = Threw("InvalidParameter")

\* What the code does instead: the rate is never examined.  With numPoints
\* equal to the length of the signal the call returns a trajectory of that
\* length: for rate 0 every sample is NaN, for a negative rate sample n is
\* data[n] turned by the (negative) angle targetFrequency * n / samplingRate.
C16_ActualBehaviour ==
  (ProjectionCalled /\ samplingRate <= 0 /\ numPoints = Len(data)) =>
    /\ result.kind = "returned"
    /\ Len(result.val) = numPoints
    /\ \A j \in 1..numPoints :
         IF samplingRate = 0
           THEN result.val[j].tag = "NaN"
           ELSE result.val[j]
                  = RotateSample(data[j],
                                 CosSin(-(targetFrequency * (j - 1)), -samplingRate))

(***************************************************************************)
(* The engine functions together: any one of them is called on a signal or *)
(* on a list of waves.  fft and calculateDFTForFrequency hold no           *)
(* assignment to data, to an element of data or to a field of a sample     *)
(* (results and dftResults are new arrays, filled with new objects);       *)
(* the callback of generateCompositeWave assigns to acc.r.                 *)
(***************************************************************************)
EngineSamples == {Num(1, 0), Num(0, 1)}

EngineWaves == UNION {SignalsOver(EngineSamples, n) : n \in 0..MaxWaveLen}

InitEngine ==
  /\ \/ waves = <<>> /\ data \in UNION {SignalsOver(Quadrant(MaxVal), n) : n \in ProjectionLengths}
     \/ data = <<>> /\ waves \in UNION {[1..c -> EngineWaves] : c \in 1..3}
  /\ other = <<>>
  /\ targetFrequency = 0
  /\ numPoints = 0
  /\ samplingRate = 1
  /\ called = "none"
  /\ result = NotCalled
  /\ resultOther = NotCalled
  /\ resultSum = NotCalled
  /\ centroid = InitialCentroid
  /\ ViewIdle
  /\ depth = 0

NextEngine ==
  CallFft \/ CallFftBackup \/ CallProject \/ CallCompose \/ CallComposeBackup

SpecEngine == InitEngine /\ [][NextEngine]_vars

\* C18: no engine function modifies its inputs: after fft, the projection or
\* the composition has run, every input array has the length and every input
\* sample the real and imaginary value it had before the call.
C18_InputsUntouched ==
  [][(called = "none" /\ called' # "none")
       => (data' = data /\ waves' = waves /\ other' = other)]_vars

C18_Witness ==
  /\ called = "generateCompositeWave"
  /\ waves = <<<<Num(1, 0), Num(0, 1)>>, <<Num(1, 0), Num(1, 0)>>>>
  /\ result = Returned(<<Num(2, 0), Num(1, 0)>>)

\* The base case of fft hands back the input itself, as it was.
C18_BaseCaseWitness ==
  /\ called = "fft"
  /\ data = <<Num(0, 1)>>
  /\ result = Returned(data)

(***************************************************************************)
(* The recursion of fft, checked under Spec.                               *)
(***************************************************************************)
RECURSIVE Log2(_)
Log2(n) == IF n <= 1 THEN 0 ELSE 1 + Log2(n \div 2)

\* Every recursive call below the call on d receives half its caller's length.
RECURSIVE EachCallHalves(_)
EachCallHalves(d) ==
  \/ Len(d) <= 1
  \/ /\ 2 * Len(EvenPart(d)) = Len(d)
     /\ 2 * Len(OddPart(d)) = Len(d)
     /\ EachCallHalves(EvenPart(d))
     /\ EachCallHalves(OddPart(d))

\* The lengths at which the recursion below the call on d stops.
RECURSIVE StopLengths(_)
StopLengths(d) ==
  IF Len(d) <= 1 THEN {Len(d)}
  ELSE StopLengths(EvenPart(d)) \cup StopLengths(OddPart(d))

\* C19: for a power-of-two N >= 1, fft (either version) terminates with a
\* result, its recursive calls nest at most log2(N) deep, each of them receives
\* exactly half its caller's length, and the recursion stops at length 1.
C19_DepthAtMostLog2 ==
  (FftCalled /\ IsPowerOfTwo(Len(data))) =>
    /\ result.kind = "returned"
    /\ depth <= Log2(Len(data))
    /\ EachCallHalves(data)
    /\ StopLengths(data) = {1}

C19_Witness ==
  /\ called = "fftBackup"
  /\ Len(data) = 4
  /\ depth = 2
  /\ result.kind = "returned"

(***************************************************************************)
(* The current App (lines 751-862 and the sliders of lines 879-1076): its  *)
(* state, a render, and the effect that follows a render whose dependency  *)
(* values differ from those of the render before.  The constants numPoints *)
(* and samplingRate are 512 and 1000 in the source; the cycle is followed  *)
(* for 2^PointsLog2 points at the rate AppRate, and each slider is moved   *)
(* to a few of the values of its range.                                    *)
(***************************************************************************)
MaxChanges == 2   \* at most this many slider changes are made
PointsLog2 == 3   \* numPoints is 2^PointsLog2
AppRate == 4      \* samplingRate

RECURSIVE PowerOfTwo(_)
PowerOfTwo(n) == IF n = 0 THEN 1 ELSE 2 * PowerOfTwo(n - 1)

AppNumPoints == PowerOfTwo(PointsLog2)

\* calculateDFTForFrequency(compositeWave, selectedFrequency, numPoints,
\* samplingRate) for a selectedFrequency with decimals: the quotient
\* targetFrequency / samplingRate of line 706 is f.n / (f.d * samplingRate).
projectionAt(wave, f, points, rate) ==
  calculateDFTForFrequency(wave, f.n, points, f.d * rate)

\* Mutant of EffectDeps: the wave parameters left out of the list.
EffectDepsFrequencyOnly(p, f, points, rate) == <<f, points, rate>>

\* The dependency list of useEffect; compositeWave is not in it.
EffectDeps(p, f, points, rate) ==
  <<f, points, rate, p.freq1, p.freq2, p.freq3, p.amp1, p.amp2, p.amp3,
    p.decay1, p.decay2, p.decay3, p.phase1, p.phase2, p.phase3>>

FreqParams == {"freq1", "freq2", "freq3"}
AmpParams == {"amp1", "amp2", "amp3"}
DecayParams == {"decay1", "decay2", "decay3"}
PhaseParams == {"phase1", "phase2", "phase3"}

\* The values a slider can deliver: freq 1..50 and phase -180..180 (by 1),
\* amp 0..5 (by 0.1), decay 0..0.01 (by 0.001).
InSliderRange(name, v) ==
  IF name \in FreqParams THEN v \in 1..50
  ELSE IF name \in PhaseParams THEN v \in -180..180
  ELSE IF name \in AmpParams
    THEN 0 <= v.n /\ v.n <= 5 * v.d /\ (10 * v.n) % v.d = 0
    ELSE 0 <= v.n /\ 100 * v.n <= v.d /\ (1000 * v.n) % v.d = 0

\* The values the sliders are moved to.
SliderTargets(name) ==
  IF name \in FreqParams THEN {2}
  ELSE IF name \in PhaseParams THEN {90}
  ELSE IF name \in AmpParams THEN {Ratio(1, 1)} ELSE {Ratio(0, 1)}

SliderValues(name) == {v \in SliderTargets(name) : InSliderRange(name, v)}

\* freqStep = parseFloat((samplingRate / numPoints).toFixed(3)), in
\* thousandths: the nearest one, the larger of two equally near.
freqStepThousandths(points, rate) == (2000 * rate + points) \div (2 * points)

\* The slider of selectedFrequency: min 0, max numPoints / 4 - 1, step
\* freqStep.  It is moved to the first steps of its range.
SelectedFrequencyValues(points, rate) ==
  {Ratio(k * freqStepThousandths(points, rate), 1000) :
     k \in {j \in 0..MaxFreq :
              4 * j * freqStepThousandths(points, rate) <= 1000 * (points - 4)}}

\* The slider of frequencyRange: two thumbs between 0 and 250.
FrequencyRangeValues == {<<0, 100>>, <<0, 250>>}

\* What a render derives (the waves, compositeWave, fftResults and the two
\* spectra), and what no step of the App touches.
renderVars == <<waves, data, result, depth, spectrumVars>>
fixedVars == <<other, targetFrequency, numPoints, samplingRate, called,
               resultOther, resultSum, phaseVars>>

\* The App after construction: the initial state of every useState, and the
\* first render yet to come.
InitApp ==
  /\ params = InitialParams
  /\ selectedFrequency = InitialSelectedFrequency
  /\ frequencyRange = InitialFrequencyRange
  /\ dftDataForChart = <<>>
  /\ centroid = InitialCentroid
  /\ numPoints = AppNumPoints
  /\ samplingRate = AppRate
  /\ closure = NoClosure
  /\ prevDeps = <<>>
  /\ dirty = TRUE
  /\ effectScheduled = FALSE
  /\ changes = 0
  /\ waveId = 0
  /\ sliderMoved = FALSE
  /\ dftResultsForSelectedFrequency = NotCalled
  /\ data = <<>>
  /\ other = <<>>
  /\ waves = <<>>
  /\ targetFrequency = 0
  /\ called = "none"
  /\ result = NotCalled
  /\ resultOther = NotCalled
  /\ resultSum = NotCalled
  /\ PhaseIdle
  /\ SpectrumIdle
  /\ depth = 0

\* A slider of a wave parameter is moved: setFreq1(v), ..., setPhase3(v).
ChangeParam ==
  /\ changes < MaxChanges
  /\ \E name \in DOMAIN params : \E v \in SliderValues(name) \ {params[name]} :
       params' = [params EXCEPT ![name] = v]
  /\ dirty' = TRUE
  /\ changes' = changes + 1
  /\ UNCHANGED <<selectedFrequency, frequencyRange, dftDataForChart, centroid,
                 closure, prevDeps, effectScheduled, backupVars, renderVars,
                 fixedVars>>

\* The frequency slider is moved: setSelectedFrequency(v).
ChangeSelectedFrequency ==
  /\ changes < MaxChanges
  /\ \E v \in SelectedFrequencyValues(numPoints, samplingRate)
                \ {selectedFrequency} :
       selectedFrequency' = v
  /\ dirty' = TRUE
  /\ changes' = changes + 1
  /\ UNCHANGED <<params, frequencyRange, dftDataForChart, centroid, closure,
                 prevDeps, effectScheduled, backupVars, renderVars, fixedVars>>

\* A thumb of the range slider under the spectra is moved:
\* setFrequencyRange(val).
ChangeFrequencyRange ==
  /\ changes < MaxChanges
  /\ \E v \in FrequencyRangeValues \ {frequencyRange} : frequencyRange' = v
  /\ dirty' = TRUE
  /\ changes' = changes + 1
  /\ UNCHANGED <<params, selectedFrequency, dftDataForChart, centroid, closure,
                 prevDeps, effectScheduled, backupVars, renderVars, fixedVars>>

\* One render of App.  The pending effect of the render before has run by
\* then.  The render builds the three waves and compositeWave, calls fft and
\* derives the two spectra.  The effect is scheduled on the first render and
\* whenever a dependency value differs from the render before; its callback
\* holds the values of this render.
Render ==
  /\ dirty
  /\ ~effectScheduled
  /\ dirty' = FALSE
  /\ prevDeps' = <<EffectDeps(params, selectedFrequency, numPoints, samplingRate)>>
  /\ effectScheduled' = (prevDeps # prevDeps')
  /\ \E sines \in {SineWavesOf(params, numPoints)} :
       \E composite \in {compositeWave(sines).val} :
         \E fftResults \in {fft(composite)} :
           /\ waves' = sines
           /\ data' = composite
           /\ result' = fftResults
           /\ depth' = fftDepth(composite, FALSE)
           /\ amplitudeSpectrumData' =
                amplitudeSpectrumDataOf(fftResults.val, samplingRate, numPoints)
           /\ phaseSpectrumData' =
                phaseSpectrumDataOf(
                  fftResults.val,
                  fftResidueFrom(composite, CompositeResidue(params, numPoints)),
                  samplingRate, numPoints)
           /\ closure' = IF effectScheduled'
                           THEN [compositeWave |-> composite,
                                 selectedFrequency |-> selectedFrequency,
                                 params |-> params]
                           ELSE closure
  /\ UNCHANGED <<params, selectedFrequency, frequencyRange, dftDataForChart,
                 centroid, changes, backupVars, fixedVars>>

\* The effect callback runs: setDftDataForChart(dftResults) and
\* setCentroid({...}) store a new array and a new object, which asks for a
\* render.
FlushEffect ==
  /\ effectScheduled
  /\ effectScheduled' = FALSE
  /\ \E dftResults \in {projectionAt(closure.compositeWave,
                           closure.selectedFrequency, numPoints, samplingRate)} :
       /\ dftResults.kind = "returned"
       /\ dftDataForChart' = dftResults.val
       /\ centroid' = centroidCurrent(dftResults.val)
  /\ dirty' = TRUE
  /\ UNCHANGED <<params, selectedFrequency, frequencyRange, closure, prevDeps,
                 changes, backupVars, renderVars, fixedVars>>

NextApp ==
  ChangeParam \/ ChangeSelectedFrequency \/ ChangeFrequencyRange \/ Render
    \/ FlushEffect

\* A render can be made exactly when one is asked for and no effect is
\* pending, and it always changes the state (dirty becomes FALSE).
RenderEnabled == dirty /\ ~effectScheduled

\* Weak fairness of Render, WF_vars(Render), with ENABLED <<Render>>_vars
\* written as the state predicate it amounts to.
RenderFair == []<>(~RenderEnabled) \/ []<><<Render>>_vars

\* React carries out a render that was asked for and runs a scheduled effect.
SpecApp ==
  /\ InitApp
  /\ [][NextApp]_vars
  /\ RenderFair
  /\ WF_vars(FlushEffect)

Quiescent == ~dirty /\ ~effectScheduled

\* The trajectory of the composite wave of the current parameters at the
\* current selectedFrequency.
CurrentTrajectory ==
  projectionAt(CompositeOf(params, numPoints), selectedFrequency, numPoints,
               samplingRate).val

\* The effect last ran with the parameters and the frequency of now, and
\* what it stored is what they give.
Fresh ==
  /\ closure.params = params
  /\ closure.selectedFrequency = selectedFrequency
  /\ dftDataForChart = CurrentTrajectory
  /\ centroid = centroidCurrent(CurrentTrajectory)

\* C20: after at most MaxChanges slider changes and none further, the cycle
\* of renders and effects comes to rest with no render asked for and no effect
\* scheduled; whenever it is at rest the trajectory on display is the
\* projection of the composite wave of the current parameters at the current
\* selectedFrequency and the centroid is twice its mean.
C20_SettlesFresh ==
  /\ [](Quiescent => Fresh)
  /\ <>[]Quiescent

\* At rest after two phase sliders were moved: the first sample of the
\* trajectory is that of the new waves (5 sin 90 + 5 sin 90 + 5 sin 0).
C20_Witness ==
  /\ Quiescent
  /\ changes = 2
  /\ params.phase1 = 90
  /\ params.phase2 = 90
  /\ Len(dftDataForChart) = numPoints
  /\ dftDataForChart[1] = Num(10, 0)
  /\ dftDataForChart = CurrentTrajectory

(***************************************************************************)
(* The backup App (lines 242-352 and the sliders of lines 365-536).  Its   *)
(* dependency list holds compositeWave, an array that every render builds  *)
(* anew; React compares dependencies with Object.is, so the array of one   *)
(* render never equals that of the render before.  Only that comparison is *)
(* ever made, so two identities, taken in turn, tell the arrays apart.     *)
(***************************************************************************)
\* useState of the twelve wave parameters (lines 246-259)
InitialParamsBackup ==
  [freq1 |-> 2, freq2 |-> 4, freq3 |-> 6,
   amp1 |-> Ratio(1, 1), amp2 |-> Ratio(1, 1), amp3 |-> Ratio(1, 1),
   decay1 |-> Ratio(0, 1), decay2 |-> Ratio(0, 1), decay3 |-> Ratio(0, 1),
   phase1 |-> 0, phase2 |-> 0, phase3 |-> 0]

\* useState(0) and useState([0, 500])
InitialSelectedFrequencyBackup == Ratio(0, 1)
InitialFrequencyRangeBackup == <<0, 500>>

\* The values the sliders of the backup App are moved to (the same ranges;
\* the initial values differ).
SliderTargetsBackup(name) ==
  IF name \in FreqParams THEN {3}
  ELSE IF name \in PhaseParams THEN {90}
  ELSE IF name \in AmpParams THEN {Ratio(2, 1)} ELSE {Ratio(1, 1000)}

SliderValuesBackup(name) ==
  {v \in SliderTargetsBackup(name) : InSliderRange(name, v)}

\* The slider of selectedFrequency: min 0, max numPoints / 2 - 1, step 1.
SelectedFrequencyValuesBackup(points) ==
  {Ratio(k, 1) : k \in {j \in 0..MaxFreq : 2 * j <= points - 2}}

\* The slider of frequencyRange: two thumbs between 0 and 500.
FrequencyRangeValuesBackup == {<<0, 500>>, <<0, 250>>}

\* [selectedFrequency, compositeWave, numPoints, samplingRate]
EffectDepsBackup(f, waveOfRender, points, rate) ==
  <<f, [array |-> waveOfRender], points, rate>>

InitAppBackup ==
  /\ params = InitialParamsBackup
  /\ selectedFrequency = InitialSelectedFrequencyBackup
  /\ frequencyRange = InitialFrequencyRangeBackup
  /\ dftDataForChart = <<>>
  /\ centroid = InitialCentroid
  /\ numPoints = AppNumPoints
  /\ samplingRate = AppRate
  /\ closure = NoClosure
  /\ prevDeps = <<>>
  /\ dirty = TRUE
  /\ effectScheduled = FALSE
  /\ changes = 0
  /\ waveId = 0
  /\ sliderMoved = FALSE
  /\ dftResultsForSelectedFrequency = NotCalled
  /\ data = <<>>
  /\ other = <<>>
  /\ waves = <<>>
  /\ targetFrequency = 0
  /\ called = "none"
  /\ result = NotCalled
  /\ resultOther = NotCalled
  /\ resultSum = NotCalled
  /\ PhaseIdle
  /\ SpectrumIdle
  /\ depth = 0

\* A slider of a wave parameter is moved.
ChangeParamBackup ==
  /\ changes < MaxChanges
  /\ \E name \in DOMAIN params :
       \E v \in SliderValuesBackup(name) \ {params[name]} :
         params' = [params EXCEPT ![name] = v]
  /\ dirty' = TRUE
  /\ sliderMoved' = TRUE
  /\ changes' = changes + 1
  /\ UNCHANGED <<selectedFrequency, frequencyRange, dftDataForChart, centroid,
                 closure, prevDeps, effectScheduled, waveId,
                 dftResultsForSelectedFrequency, renderVars, fixedVars>>

\* The frequency slider is moved.
ChangeSelectedFrequencyBackup ==
  /\ changes < MaxChanges
  /\ \E v \in SelectedFrequencyValuesBackup(numPoints) \ {selectedFrequency} :
       selectedFrequency' = v
  /\ dirty' = TRUE
  /\ sliderMoved' = TRUE
  /\ changes' = changes + 1
  /\ UNCHANGED <<params, frequencyRange, dftDataForChart, centroid, closure,
                 prevDeps, effectScheduled, waveId,
                 dftResultsForSelectedFrequency, renderVars, fixedVars>>

\* A thumb of the range slider under the amplitude spectrum is moved.
ChangeFrequencyRangeBackup ==
  /\ changes < MaxChanges
  /\ \E v \in FrequencyRangeValuesBackup \ {frequencyRange} : frequencyRange' = v
  /\ dirty' = TRUE
  /\ sliderMoved' = TRUE
  /\ changes' = changes + 1
  /\ UNCHANGED <<params, selectedFrequency, dftDataForChart, centroid, closure,
                 prevDeps, effectScheduled, waveId,
                 dftResultsForSelectedFrequency, renderVars, fixedVars>>

\* One render of the backup App: it builds the three waves and compositeWave,
\* calls fft and the projection and derives the two spectra; the effect is
\* scheduled when a dependency differs from the render before.
RenderBackup ==
  /\ dirty
  /\ ~effectScheduled
  /\ waveId' = 1 - waveId
  /\ dirty' = FALSE
  /\ sliderMoved' = FALSE
  /\ prevDeps' = <<EffectDepsBackup(selectedFrequency, waveId', numPoints,
                                    samplingRate)>>
  /\ effectScheduled' = (prevDeps # prevDeps')
  /\ \E sines \in {SineWavesOf(params, numPoints)} :
       \E composite \in {generateCompositeWave(sines).val} :
         \E fftResults \in {fftBackup(composite)} :
           /\ waves' = sines
           /\ data' = composite
           /\ result' = fftResults
           /\ depth' = fftDepth(composite, TRUE)
           /\ dftResultsForSelectedFrequency' =
                projectionAt(composite, selectedFrequency, numPoints,
                             samplingRate)
           /\ amplitudeSpectrumData' =
                amplitudeSpectrumDataOf(fftResults.val, samplingRate, numPoints)
           /\ phaseSpectrumData' =
                phaseSpectrumDataOfBackup(
                  fftResults.val,
                  fftResidueFrom(composite, CompositeResidue(params, numPoints)),
                  samplingRate, numPoints)
           /\ closure' = IF effectScheduled'
                           THEN [compositeWave |-> composite,
                                 selectedFrequency |-> selectedFrequency,
                                 params |-> params]
                           ELSE closure
  /\ UNCHANGED <<params, selectedFrequency, frequencyRange, dftDataForChart,
                 centroid, changes, fixedVars>>

\* The effect callback of the backup App runs.
FlushEffectBackup ==
  /\ effectScheduled
  /\ effectScheduled' = FALSE
  /\ \E dftResults \in {projectionAt(closure.compositeWave,
                           closure.selectedFrequency, numPoints, samplingRate)} :
       /\ dftResults.kind = "returned"
       /\ dftDataForChart' = dftResults.val
       /\ centroid' = centroidBackup(dftResults.val)
  /\ dirty' = TRUE
  /\ UNCHANGED <<params, selectedFrequency, frequencyRange, closure, prevDeps,
                 changes, backupVars, renderVars, fixedVars>>

NextAppBackup ==
  ChangeParamBackup \/ ChangeSelectedFrequencyBackup
    \/ ChangeFrequencyRangeBackup \/ RenderBackup \/ FlushEffectBackup

SpecAppBackup == InitAppBackup /\ [][NextAppBackup]_vars

\* A render later than the first, asked for by the effect's own
\* setDftDataForChart and setCentroid alone.
RenderOfOwnUpdate == dirty /\ ~dirty' /\ prevDeps # <<>> /\ ~sliderMoved

\* C21 (as claimed): in the backup App a render caused by the effect's own
\* state updates does not run the effect again; the effect runs again only
\* after selectedFrequency or a wave parameter has changed.
C21_OwnUpdateDoesNotRerun ==
  [][RenderOfOwnUpdate => ~effectScheduled']_vars

\* What the code does: every render schedules the effect, whatever asked
\* for the render, and every run of the effect asks for a render, so the
\* cycle of renders and effects does not stop by itself.
C21_ActualBehaviour ==
  [][/\ (dirty /\ ~dirty') => effectScheduled'
     /\ (effectScheduled /\ ~effectScheduled') => dirty']_vars

\* The effect has run and is scheduled again with no slider moved at all.
C21_RerunWitness ==
  /\ changes = 0
  /\ effectScheduled
  /\ Len(dftDataForChart) = numPoints
  /\ ~sliderMoved

====
